---- MODULE Spec2Model ----
(***************************************************************************)
(* kffmpeg (src/main.py): a console front end that runs ffmpeg from        *)
(* presets stored in config.yaml.  The model follows one process from the  *)
(* parsed command line to its exit: StartupChecker, then Runner.run with   *)
(* its five dialogue steps, in interactive and in scripted mode.           *)
(*                                                                         *)
(* Strings are TLA+ strings.  Python's None for an optional argument is    *)
(* the record None; a supplied value s is Some(s).  A YAML scalar that may *)
(* be a number or a string (Option.value) is the record IntV(n) or StrV(s) *)
(* and is formatted the way an f-string formats it (str).                  *)
(***************************************************************************)
EXTENDS Integers, Sequences, FiniteSets, TLC

VARIABLES
    entry,        \* how the classes are driven: "script" = the __main__ block as written,
                  \* "classes" = StartupChecker(args) built with the parsed arguments
    args,         \* argparse.Namespace: config, hash, input_path
    config_file,  \* content of config.yaml on disk, or NoFile
    files,        \* the paths for which os.path.isfile is true (ffmpeg candidates)
    pc,           \* position of the single control-flow thread
    result,       \* StartupChecker.result: "None", "True" or "False"
    config,       \* the one in-process Config object (StartupChecker.config = Runner.config)
    command,      \* Runner.run's `command`: position of the chosen preset in config.commands, 0 = none yet
    input_path,   \* Runner.run's `input_path`
    output_path,  \* Runner.run's `output_path`
    children,     \* the argument vectors handed to subprocess.run, in order
    console,      \* the fixed messages printed so far, in order
    exit_status,  \* the process exit status, meaningful when pc = "exited"
    raised,       \* the uncaught exception that ended the process, "" if none
    writes,       \* number of times config.yaml was written
    had_config,   \* history: config.yaml existed when check_config looked
    loaded,       \* history: the Config as load_config returned it
    edit_log,     \* history: the <<position, new value>> edits of __modify_options, in order
    answers,      \* history: the y/n answers given to __modify_options, in order
    confirm_answer \* history: the answer given at the execute prompt, None before it

vars == <<entry, args, config_file, files, pc, result, config, command, input_path,
          output_path, children, console, exit_status, raised, writes, had_config,
          loaded, edit_log, answers, confirm_answer>>

-----------------------------------------------------------------------------
(* Bounds of the model *)

MaxPresets == 2      \* presets in a config.yaml
MaxEdits == 2        \* rounds of __modify_options answered "n"

-----------------------------------------------------------------------------
(* Values *)

None == [none |-> TRUE, v |-> ""]
Some(s) == [none |-> FALSE, v |-> s]

IntV(n) == [int |-> TRUE, n |-> n, s |-> ""]
StrV(s) == [int |-> FALSE, n |-> 0, s |-> s]

PH_ffmpeg_path == "{{ffmpeg_path}}"
PH_input_path == "{{input_path}}"
PH_options == "{{options}}"
PH_output_path == "{{output_path}}"
Placeholders == {PH_ffmpeg_path, PH_input_path, PH_options, PH_output_path}

Digit(d) ==
    CASE d = 0 -> "0" [] d = 1 -> "1" [] d = 2 -> "2" [] d = 3 -> "3" [] d = 4 -> "4"
      [] d = 5 -> "5" [] d = 6 -> "6" [] d = 7 -> "7" [] d = 8 -> "8" [] d = 9 -> "9"

RECURSIVE IntStr(_)
IntStr(n) == IF n < 10 THEN Digit(n) ELSE IntStr(n \div 10) \o Digit(n % 10)

\* f"{value}": str() of a YAML scalar
Str(value) == IF value.int THEN IntStr(value.n) ELSE value.s

\* f"{option['flag']} {option['value']}"
OptionStr(option) == option.flag \o " " \o Str(option.value)

\* " ".join([f"{option['flag']} {option['value']}" for option in options])
RECURSIVE JoinOptions(_)
JoinOptions(options) ==
    IF Len(options) = 0 THEN ""
    ELSE IF Len(options) = 1 THEN OptionStr(options[1])
    ELSE OptionStr(options[1]) \o " " \o JoinOptions(Tail(options))

\* hashlib.sha256(str(title).encode()).hexdigest()[0:8], tabulated for the titles
\* of the model (the values are the real digests' prefixes)
Sha256Prefix(title) ==
    CASE title = "Light" -> "dbcd5e7b"
      [] title = "Heavy" -> "caaba846"
      [] title = "Preset 21" -> "b910df22"
      [] title = "Preset 9577" -> "b910df22"
      [] title = "Make video lighter by using h264_nvenc CQ 32" -> "13920aa1"

\* os.path.splitext(p)[0], tabulated for the paths of the model
SplitextRoot(p) ==
    CASE p = "clip.mov" -> "clip"
      [] p = "/in/clip.mov" -> "/in/clip"
      [] OTHER -> p        \* no dot in the last component

\* os.path.isabs, tabulated for the input paths of the model
IsAbs(p) == p = "/in/clip.mov"

Cwd == "/out"

\* os.path.join(os.getcwd(), f"{splitext(input_path)[0]}{suffix}{extension}"):
\* join drops the working directory when the second part is absolute
DefaultOutputPath(cmd, inp) ==
    LET name == SplitextRoot(inp) \o cmd.output_filename_suffix \o cmd.output_extension
    IN  IF IsAbs(inp) THEN name ELSE Cwd \o "/" \o name

\* int(line): the lines an operator types at a "Choice >" prompt
IsIntLiteral(line) == line \in {"0", "1", "2", "-1"}
IntOf(line) ==
    CASE line = "0" -> 0 [] line = "1" -> 1 [] line = "2" -> 2 [] line = "-1" -> 0 - 1

\* list[i] of Python for a list of length n: the position reached (1-based), 0 = IndexError
PyPos(n, i) ==
    IF i >= 0 THEN (IF i < n THEN i + 1 ELSE 0)
    ELSE (IF n + i >= 0 THEN n + i + 1 ELSE 0)

-----------------------------------------------------------------------------
(* Template substitution, lines 259-265 *)

\* list.index(x): the first position holding x (1-based), 0 = ValueError
index(list, x) ==
    IF \E i \in 1..Len(list) : list[i] = x
    THEN CHOOSE i \in 1..Len(list) : list[i] = x /\ \A j \in 1..(i - 1) : list[j] # x
    ELSE 0

\* command_list[command_list.index(token)] = value, skipped once an earlier
\* statement has raised
Substitute(st, token, value) ==
    IF st.raised THEN st
    ELSE IF index(st.list, token) = 0 THEN [list |-> st.list, raised |-> TRUE]
    ELSE [list |-> [st.list EXCEPT ![index(st.list, token)] = value], raised |-> FALSE]

\* the four assignments in the order the code makes them
Render(command_list, ffmpeg, inp, out, options) ==
    Substitute(
      Substitute(
        Substitute(
          Substitute([list |-> command_list, raised |-> FALSE], PH_ffmpeg_path, ffmpeg),
          PH_input_path, inp),
        PH_output_path, out),
      PH_options, JoinOptions(options))

\* the literal list of the scripted branch, lines 247-253
ScriptedArgv(ffmpeg, inp, out, options) ==
    <<ffmpeg, "-i", inp, JoinOptions(options), out>>

-----------------------------------------------------------------------------
(* Hash lookup, lines 158-163 *)

\* for command in commands: if sha256(title)[0:8] == hash: return command
\* the position of the command returned, 0 when the loop falls through
RECURSIVE ScanFrom(_, _, _)
ScanFrom(commands, hash, i) ==
    IF i > Len(commands) THEN 0
    ELSE IF Sha256Prefix(commands[i].title) = hash THEN i
    ELSE ScanFrom(commands, hash, i + 1)

\* variant: falls back to the first preset when the loop falls through
find_command_fallback(commands, hash) ==
    IF ScanFrom(commands, hash, 1) = 0 THEN 1 ELSE ScanFrom(commands, hash, 1)

\* variant: keeps scanning and returns the last match
find_command_last(commands, hash) ==
    IF \E i \in 1..Len(commands) : Sha256Prefix(commands[i].title) = hash
    THEN CHOOSE i \in 1..Len(commands) :
            /\ Sha256Prefix(commands[i].title) = hash
            /\ \A j \in (i + 1)..Len(commands) : Sha256Prefix(commands[j].title) # hash
    ELSE 0

find_command(commands, hash) == ScanFrom(commands, hash, 1)

\* variant: writes the first option whatever the choice
set_value_first(options, pos, new_value) ==
    [options EXCEPT ![1] = [flag |-> options[1].flag, value |-> StrV(new_value)]]

\* options[choice]["value"] = new_value, line 207 (new_value is a console line)
set_value(options, pos, new_value) ==
    [options EXCEPT ![pos] = [flag |-> options[pos].flag, value |-> StrV(new_value)]]

\* variant: anything but "n" counts as consent
is_not_no(choice) == choice # "n"

\* if choice == "y", line 270
is_yes(choice) == choice = "y"

-----------------------------------------------------------------------------
(* The configurations, arguments and console lines of the model *)

TplDefault == <<PH_ffmpeg_path, "-i", PH_input_path, PH_options, PH_output_path>>
TplOverwrite == <<PH_ffmpeg_path, "-y", "-i", PH_input_path, PH_options, PH_output_path>>
TplReordered == <<PH_ffmpeg_path, PH_options, "-i", PH_input_path, PH_output_path>>
TplNoOutput == <<PH_ffmpeg_path, "-i", PH_input_path, PH_options>>

\* the file create_config writes, lines 67-91, as load_config reads it back
DefaultConfig ==
    [ffmpeg_path |-> "/usr/bin/ffmpeg",
     commands |-> <<
        [title |-> "Make video lighter by using h264_nvenc CQ 32",
         options |-> <<[flag |-> "-cq", value |-> IntV(32)],
                       [flag |-> "-c:v", value |-> StrV("h264_nvenc")]>>,
         output_extension |-> ".mp4",
         output_filename_suffix |-> "_light",
         command |-> TplDefault]>>]

PresetPool ==
    { [title |-> "Light",
       options |-> <<[flag |-> "-cq", value |-> IntV(32)],
                     [flag |-> "-c:v", value |-> StrV("h264_nvenc")]>>,
       output_extension |-> ".mp4", output_filename_suffix |-> "_light",
       command |-> TplDefault],
      [title |-> "Preset 21",
       options |-> <<[flag |-> "-crf", value |-> IntV(28)]>>,
       output_extension |-> ".mkv", output_filename_suffix |-> "_small",
       command |-> TplOverwrite],
      [title |-> "Preset 9577",
       options |-> <<[flag |-> "-b:v", value |-> StrV("1M")]>>,
       output_extension |-> ".mp4", output_filename_suffix |-> "_light",
       command |-> TplReordered],
      [title |-> "Heavy",
       options |-> <<[flag |-> "-crf", value |-> IntV(105)]>>,
       output_extension |-> ".mkv", output_filename_suffix |-> "",
       command |-> TplNoOutput] }

FfmpegPaths == {"/usr/bin/ffmpeg", PH_input_path}

PresetLists == UNION { [1..n -> PresetPool] : n \in 1..MaxPresets }

Configs == { [ffmpeg_path |-> f, commands |-> c] : f \in FfmpegPaths, c \in PresetLists }

HashArgs == {"dbcd5e7b", "b910df22", "caaba846", "DBCD5E7B"}
InputPaths == {"clip.mov", "/in/clip.mov", PH_output_path}
TypedOutputPaths == {"out.mkv", PH_options}
ChoiceLines == {"0", "1", "2", "-1", "x"}
YesNoLines == {"y", "n", ""}
NewValues == {"30", "hevc"}

Optional(S) == {None} \cup { Some(x) : x \in S }

-----------------------------------------------------------------------------
(* State *)

PyBool(b) == IF b THEN "True" ELSE "False"

\* the mode tests of Runner: lines 157, 180, 213, 244 and line 150
Scripted == ~args.hash.none /\ ~args.input_path.none
NoScriptArgs == args.hash.none /\ args.input_path.none

Init ==
    /\ entry \in {"script", "classes"}
    /\ args \in [config : BOOLEAN, hash : Optional(HashArgs), input_path : Optional(InputPaths)]
    /\ config_file \in {<<>>} \cup { <<c>> : c \in Configs }
    /\ files \in SUBSET FfmpegPaths
    /\ pc = "main"
    /\ result = "None"
    /\ config = DefaultConfig
    /\ command = 0
    /\ input_path = ""
    /\ output_path = ""
    /\ children = <<>>
    /\ console = <<>>
    /\ exit_status = 0
    /\ raised = ""
    /\ writes = 0
    /\ had_config = FALSE
    /\ loaded = DefaultConfig
    /\ edit_log = <<>>
    /\ answers = <<>>
    /\ confirm_answer = None

\* exit(status), or an uncaught exception (status 1), after printing msgs
Exit(status, exception, msgs) ==
    /\ pc' = "exited"
    /\ exit_status' = status
    /\ raised' = exception
    /\ console' = console \o msgs

Say(msgs) == console' = console \o msgs /\ UNCHANGED <<exit_status, raised>>

-----------------------------------------------------------------------------
(* StartupChecker, lines 28-125 *)

\* check_config, lines 54-63
check_config(found) == PyBool(found)

\* check_args, lines 101-113: the value assigned to self.result
check_args(a) ==
    IF ~a.hash.none /\ a.input_path.none THEN "False"
    ELSE IF a.hash.none /\ ~a.input_path.none THEN "False"
    ELSE "True"

\* check_ffmpeg_executable, lines 116-125: the value assigned to self.result
check_ffmpeg_executable(cfg, fs) == PyBool(cfg.ffmpeg_path \in fs)

\* self.result after the three checks of __init__ have each assigned it in turn
checker_result(found, a, cfg, fs) ==
    LET after_config == check_config(found)
        after_args == check_args(a)
        after_ffmpeg == check_ffmpeg_executable(cfg, fs)
    IN  after_ffmpeg

\* the __main__ block as written, line 299: StartupChecker() without the
\* required positional argument raises TypeError before any check runs
main_construct_script ==
    /\ pc = "main" /\ entry = "script"
    /\ Exit(1, "TypeError", <<>>)
    /\ UNCHANGED <<entry, args, config_file, files, result, config, command, input_path,
                   output_path, children, writes, had_config, loaded, edit_log, answers, confirm_answer>>

\* StartupChecker(args).__init__, lines 29-35
StartupChecker_init ==
    /\ pc = "main" /\ entry = "classes"
    /\ LET found == config_file # <<>>
           cfg == IF found THEN config_file[1] ELSE DefaultConfig
       IN  /\ had_config' = found
           /\ config_file' = <<cfg>>
           /\ writes' = IF found THEN writes ELSE writes + 1
           /\ config' = cfg
           /\ loaded' = cfg
           /\ result' = checker_result(found, args, cfg, files)
           /\ Say(<<IF found THEN "config.yaml found." ELSE "config.yaml not found.",
                    IF check_args(args) = "True" THEN "Args check passed."
                    ELSE IF args.input_path.none
                         THEN "You need to specify --input_path when you specify --hash."
                         ELSE "You need to specify --hash when you specify --input_path.",
                    IF cfg.ffmpeg_path \in files THEN "ffmpeg executable found"
                    ELSE "ffmpeg executable not found">>)
    /\ pc' = "checked"
    /\ UNCHANGED <<entry, args, files, command, input_path, output_path, children,
                   edit_log, answers, confirm_answer>>

\* __main__, lines 300-305
main_verdict ==
    /\ pc = "checked"
    /\ IF result = "True"
       THEN /\ pc' = "run"
            /\ Say(<<"Startup check passed.">>)
       ELSE Exit(1, "", <<"Startup check failed.">>)
    /\ UNCHANGED <<entry, args, config_file, files, result, config, command, input_path,
                   output_path, children, writes, had_config, loaded, edit_log, answers, confirm_answer>>

-----------------------------------------------------------------------------
(* Runner, lines 128-275 *)

\* Runner.run, lines 139-145
run_show_config ==
    /\ pc = "run" /\ args.config
    /\ Exit(0, "", <<"config.yaml path is", "<config>">>)
    /\ UNCHANGED <<entry, args, config_file, files, result, config, command, input_path,
                   output_path, children, writes, had_config, loaded, edit_log, answers, confirm_answer>>

\* __choose_command, scripted branch, lines 157-165
choose_command_scripted ==
    /\ pc = "run" /\ ~args.config /\ Scripted
    /\ LET k == find_command(config.commands, args.hash.v)
       IN  IF k = 0
           THEN Exit(1, "", <<"Hash not found.">>) /\ UNCHANGED command
           ELSE pc' = "ask_input_path" /\ command' = k /\ Say(<<>>)
    /\ UNCHANGED <<entry, args, config_file, files, result, config, input_path,
                   output_path, children, writes, had_config, loaded, edit_log, answers, confirm_answer>>

\* __choose_command, interactive branch, lines 167-177
choose_command_interactive ==
    /\ pc = "run" /\ ~args.config /\ ~Scripted
    /\ \E line \in ChoiceLines :
          IF ~IsIntLiteral(line)
          THEN Exit(1, "ValueError", <<"Choose a command.">>) /\ UNCHANGED command
          ELSE IF PyPos(Len(config.commands), IntOf(line)) = 0
          THEN Exit(1, "IndexError", <<"Choose a command.">>) /\ UNCHANGED command
          ELSE /\ command' = PyPos(Len(config.commands), IntOf(line))
               /\ pc' = "ask_input_path"
               /\ Say(<<"Choose a command.", "Chosen command:">>)
    /\ UNCHANGED <<entry, args, config_file, files, result, config, input_path,
                   output_path, children, writes, had_config, loaded, edit_log, answers, confirm_answer>>

\* __ask_input_path, lines 180-187
ask_input_path ==
    /\ pc = "ask_input_path"
    /\ IF Scripted
       THEN input_path' = args.input_path.v /\ Say(<<>>)
       ELSE \E line \in InputPaths :
               /\ input_path' = line
               /\ Say(<<"Input the path of the video file.", "Input path:">>)
    /\ pc' = "options"
    /\ UNCHANGED <<entry, args, config_file, files, result, config, command,
                   output_path, children, writes, had_config, loaded, edit_log, answers, confirm_answer>>

\* Runner.run, lines 148-152, else branch: the options are used as configured
run_keep_options ==
    /\ pc = "options" /\ ~NoScriptArgs
    /\ pc' = "gen_output_path"
    /\ UNCHANGED <<entry, args, config_file, files, result, config, command, input_path,
                   output_path, children, console, exit_status, raised, writes, had_config,
                   loaded, edit_log, answers, confirm_answer>>

\* one call of __modify_options, lines 190-210: `options` is the chosen
\* preset's own list inside config, so the assignment of line 207 writes config;
\* the recursive call of line 209 is the next firing of this action
modify_options ==
    /\ pc = "options" /\ NoScriptArgs
    /\ \E choice \in YesNoLines :
          /\ answers' = Append(answers, choice)
          /\ IF choice = "n"
             THEN /\ Len(edit_log) < MaxEdits
                  /\ \E line \in ChoiceLines, new_value \in NewValues :
                        LET options == config.commands[command].options
                            pos == IF IsIntLiteral(line) THEN PyPos(Len(options), IntOf(line)) ELSE 0
                            msgs == <<"Options are below. Is it OK?", "Choose option you want to modify.">>
                        IN  IF ~IsIntLiteral(line)
                            THEN Exit(1, "ValueError", msgs) /\ UNCHANGED <<config, edit_log>>
                            ELSE IF pos = 0
                            THEN Exit(1, "IndexError", msgs) /\ UNCHANGED <<config, edit_log>>
                            ELSE /\ config' = [config EXCEPT !.commands[command].options =
                                                  set_value(options, pos, new_value)]
                                 /\ edit_log' = Append(edit_log, <<pos, new_value>>)
                                 /\ pc' = "options"
                                 /\ Say(msgs \o <<"Chosen option:", "Input new value.", "New value:">>)
             ELSE /\ pc' = "gen_output_path"
                  /\ Say(<<"Options are below. Is it OK?">>)
                  /\ UNCHANGED <<config, edit_log>>
    /\ UNCHANGED <<entry, args, config_file, files, result, command, input_path,
                   output_path, children, writes, had_config, loaded, confirm_answer>>

\* __gen_output_path, lines 213-239
gen_output_path ==
    /\ pc = "gen_output_path"
    /\ LET default == DefaultOutputPath(config.commands[command], input_path)
       IN  IF Scripted
           THEN output_path' = default /\ Say(<<>>)
           ELSE \E choice \in YesNoLines :
                   IF choice = "n"
                   THEN \E line \in TypedOutputPaths :
                           /\ output_path' = line
                           /\ Say(<<"Current output path is:", "Is it OK?",
                                    "Input new output path.", "Output path:">>)
                   ELSE /\ output_path' = default
                        /\ Say(<<"Current output path is:", "Is it OK?">>)
    /\ pc' = "execute_command"
    /\ UNCHANGED <<entry, args, config_file, files, result, config, command, input_path,
                   children, writes, had_config, loaded, edit_log, answers, confirm_answer>>

\* __execute_command, scripted branch, lines 244-256
execute_command_scripted ==
    /\ pc = "execute_command" /\ Scripted
    /\ children' = Append(children,
                      ScriptedArgv(config.ffmpeg_path, input_path, output_path,
                                   config.commands[command].options))
    /\ Exit(0, "", <<"Executing command...", "Done.">>)
    /\ UNCHANGED <<entry, args, config_file, files, result, config, command, input_path,
                   output_path, writes, had_config, loaded, edit_log, answers, confirm_answer>>

\* __execute_command, interactive branch up to the prompt, lines 258-269:
\* command_list is the chosen preset's own list inside config
execute_command_render ==
    /\ pc = "execute_command" /\ ~Scripted
    /\ LET r == Render(config.commands[command].command, config.ffmpeg_path,
                       input_path, output_path, config.commands[command].options)
       IN  /\ config' = [config EXCEPT !.commands[command].command = r.list]
           /\ IF r.raised
              THEN Exit(1, "ValueError", <<>>)
              ELSE /\ pc' = "confirm"
                   /\ Say(<<"Generated command:", "Do you want to execute this command?">>)
    /\ UNCHANGED <<entry, args, config_file, files, result, command, input_path,
                   output_path, children, writes, had_config, loaded, edit_log, answers, confirm_answer>>

\* __execute_command, interactive branch from the answer on, lines 269-275,
\* then run returns and the script ends
execute_command_confirm ==
    /\ pc = "confirm"
    /\ \E choice \in YesNoLines :
        /\ confirm_answer' = Some(choice)
        /\ IF is_yes(choice)
           THEN /\ children' = Append(children, config.commands[command].command)
                /\ Exit(0, "", <<"Executing command...", "Done.">>)
           ELSE /\ children' = children
                /\ Exit(0, "", <<"Aborted.">>)
    /\ UNCHANGED <<entry, args, config_file, files, result, config, command, input_path,
                   output_path, writes, had_config, loaded, edit_log, answers>>

Next ==
    \/ main_construct_script
    \/ StartupChecker_init
    \/ main_verdict
    \/ run_show_config
    \/ choose_command_scripted
    \/ choose_command_interactive
    \/ ask_input_path
    \/ run_keep_options
    \/ modify_options
    \/ gen_output_path
    \/ execute_command_scripted
    \/ execute_command_render
    \/ execute_command_confirm

Spec == Init /\ [][Next]_vars

-----------------------------------------------------------------------------
(* Properties *)

Constructed == entry = "classes" /\ pc # "main"
Last(seq) == seq[Len(seq)]
Printed(msg) == \E i \in 1..Len(console) : console[i] = msg

\* what load_config reads: the file on disk, or the default create_config writes
ConfiguredCommands ==
    IF config_file = <<>> THEN DefaultConfig.commands ELSE config_file[1].commands

ExactlyOnce(list, token) == Cardinality({ i \in 1..Len(list) : list[i] = token }) = 1
Lacks(template) == \E token \in Placeholders : index(template, token) = 0
WellFormed(template) == \A token \in Placeholders : ExactlyOnce(template, token)

\* argv is template with each placeholder position holding its value and
\* every other position unchanged
RenderedFrom(template, argv, ffmpeg, inp, out, options) ==
    /\ Len(argv) = Len(template)
    /\ \A i \in 1..Len(template) :
          argv[i] = CASE template[i] = PH_ffmpeg_path -> ffmpeg
                      [] template[i] = PH_input_path -> inp
                      [] template[i] = PH_options -> JoinOptions(options)
                      [] template[i] = PH_output_path -> out
                      [] OTHER -> template[i]

\* C1: after construction, StartupChecker.result is pass exactly when the
\* config file was present, the ffmpeg file exists, and --hash and
\* --input_path are both supplied or both omitted.
C1_VerdictIsConjunction ==
    Constructed =>
        (result = "True" <=>
            /\ had_config
            /\ loaded.ffmpeg_path \in files
            /\ (args.hash.none <=> args.input_path.none))

\* C2: when the interactive branch has rendered a template that holds each of
\* the four placeholders exactly once, the rendered list has the template's
\* length, each placeholder position holds its own value, and every other
\* token is unchanged in place.
C2_RenderPreservesShape ==
    (pc = "confirm" /\ WellFormed(loaded.commands[command].command)) =>
        RenderedFrom(loaded.commands[command].command,
                     config.commands[command].command,
                     config.ffmpeg_path, input_path, output_path,
                     config.commands[command].options)

\* C3: in scripted mode the argument vector handed to the child process is
\* the chosen preset's template rendered with the configured ffmpeg path, the
\* given input path, the configured options and the default output path.
C3_ScriptedRunsTemplate ==
    (Scripted /\ children # <<>> /\ WellFormed(loaded.commands[command].command)) =>
        RenderedFrom(loaded.commands[command].command, children[1],
                     loaded.ffmpeg_path, args.input_path.v,
                     DefaultOutputPath(loaded.commands[command], args.input_path.v),
                     loaded.commands[command].options)

\* C4: when the chosen preset's template lacks one of the four placeholders,
\* no child process is spawned and the run never gets to offer the command
\* for execution, in interactive and in scripted mode.
C4_MalformedTemplateFails ==
    (Constructed /\ command # 0 /\ Lacks(loaded.commands[command].command)) =>
        /\ children = <<>>
        /\ pc # "confirm"
        /\ (pc = "exited" => raised # "" \/ exit_status # 0)

\* C5: a run given --config ends with exit status 0 having printed the
\* configuration, with no preset chosen, no prompt answered and no child
\* process, whatever the startup checks found.
C5_ShowConfigAlwaysExitsZero ==
    args.config =>
        /\ command = 0 /\ children = <<>> /\ answers = <<>> /\ confirm_answer = None
        /\ (pc = "exited" => exit_status = 0 /\ raised = "" /\ Printed("<config>"))

HashUnmatched ==
    /\ Scripted
    /\ \A i \in 1..Len(ConfiguredCommands) :
          Sha256Prefix(ConfiguredCommands[i].title) # args.hash.v

\* C6 as stated: in scripted mode with a hash no preset has, the process ends
\* with exit status 1 and spawns no child process.
C6_UnmatchedHashExitsOne ==
    HashUnmatched => (children = <<>> /\ (pc = "exited" => exit_status = 1))

\* C6 as amended: the same, for runs without --config.
C6_UnmatchedHashExitsOneUnlessShowConfig ==
    (HashUnmatched /\ ~args.config) =>
        (children = <<>> /\ command = 0 /\ (pc = "exited" => exit_status = 1))

C6_Witness ==
    /\ Constructed /\ HashUnmatched /\ ~args.config
    /\ pc = "exited" /\ console # <<>> /\ Last(console) = "Hash not found."

\* C7: in interactive mode an answer "n" at the execute prompt leaves no
\* child process, reports "Aborted." and ends the process with status 0; a
\* child process exists only after the command was displayed and the answer
\* was "y".
C7_NoChildWithoutConsent ==
    ~Scripted =>
        /\ (confirm_answer = Some("n") =>
               /\ children = <<>>
               /\ pc = "exited" /\ exit_status = 0 /\ raised = ""
               /\ Last(console) = "Aborted.")
        /\ (children # <<>> =>
               /\ confirm_answer = Some("y")
               /\ \E i \in 1..Len(console) :
                     /\ console[i] = "Generated command:"
                     /\ \A j \in 1..i : console[j] # "Executing command...")

C7_Witness ==
    /\ Constructed /\ ~Scripted /\ confirm_answer = Some("n") /\ pc = "exited"

\* C8: in scripted mode the preset resolved is the one of smallest position
\* in configuration order whose derived hash equals the argument, also when
\* several presets have that hash.
C8_FirstMatchWins ==
    (Scripted /\ command # 0) =>
        /\ Sha256Prefix(ConfiguredCommands[command].title) = args.hash.v
        /\ \A j \in 1..(command - 1) :
              Sha256Prefix(ConfiguredCommands[j].title) # args.hash.v

C8_Witness ==
    /\ Scripted /\ command = 1 /\ Len(ConfiguredCommands) >= 2
    /\ ConfiguredCommands[1].title # ConfiguredCommands[2].title
    /\ Sha256Prefix(ConfiguredCommands[2].title) = args.hash.v

\* C9: after load, the in-process configuration differs from what was loaded
\* at most in option values, each template still holds its placeholders, and
\* config.yaml is not written after startup.
C9_ConfigFrozenExceptValues ==
    Constructed =>
        /\ config.ffmpeg_path = loaded.ffmpeg_path
        /\ Len(config.commands) = Len(loaded.commands)
        /\ \A i \in 1..Len(loaded.commands) :
              /\ config.commands[i].title = loaded.commands[i].title
              /\ config.commands[i].output_extension = loaded.commands[i].output_extension
              /\ config.commands[i].output_filename_suffix = loaded.commands[i].output_filename_suffix
              /\ config.commands[i].command = loaded.commands[i].command
              /\ Len(config.commands[i].options) = Len(loaded.commands[i].options)
              /\ \A k \in 1..Len(loaded.commands[i].options) :
                    config.commands[i].options[k].flag = loaded.commands[i].options[k].flag
        /\ config_file = <<loaded>>
        /\ writes = (IF had_config THEN 0 ELSE 1)

\* the value option k holds after the edits of log: the value of the last
\* edit of k, the configured value when k was never edited
EditedValue(configured, log, k) ==
    IF \E e \in 1..Len(log) : log[e][1] = k
    THEN StrV(log[CHOOSE e \in 1..Len(log) :
                    log[e][1] = k /\ \A later \in (e + 1)..Len(log) : log[later][1] # k][2])
    ELSE configured[k].value

\* C10: in the ReviewOptions loop every round answered "n" with a valid index
\* and a value sets that option's value and nothing else; the loop goes on
\* after each edit and stops at the first answer other than "n"; the options
\* that go on to Execute are the configured ones with every edit applied in
\* order.
C10_EditsApplyInOrder ==
    (Constructed /\ NoScriptArgs /\ command # 0) =>
        LET now == config.commands[command].options
            configured == loaded.commands[command].options
            reviewed == pc \in {"gen_output_path", "execute_command", "confirm"}
                          \/ (pc = "exited" /\ confirm_answer # None)
        IN  /\ Len(now) = Len(configured)
            /\ \A k \in 1..Len(configured) :
                  /\ now[k].flag = configured[k].flag
                  /\ now[k].value = EditedValue(configured, edit_log, k)
            /\ \A i \in 1..Len(config.commands) :
                  i # command => config.commands[i].options = loaded.commands[i].options
            /\ (pc = "options" => /\ Len(edit_log) = Len(answers)
                                  /\ \A a \in 1..Len(answers) : answers[a] = "n")
            /\ (reviewed => /\ Len(answers) = Len(edit_log) + 1
                            /\ Last(answers) # "n"
                            /\ \A a \in 1..Len(edit_log) : answers[a] = "n")

C10_Witness ==
    /\ Constructed /\ NoScriptArgs /\ pc = "execute_command"
    /\ Len(edit_log) = 2
    /\ edit_log[1][1] = edit_log[2][1] /\ edit_log[1][2] # edit_log[2][2]
    /\ Len(config.commands[command].options) = 2

====
